---- MODULE Spec2Model ----
(***************************************************************************)
(* color_name_picker.py: the Name Normalizer (lines 12-57) and the Greedy  *)
(* Matcher (lines 61-113) as a state machine.                              *)
(*                                                                         *)
(* A Python str is a sequence of one-character strings, so that split,     *)
(* replace, lower, upper, isdigit and int are computed character by        *)
(* character as the interpreter computes them.                             *)
(***************************************************************************)
EXTENDS Integers, Sequences, FiniteSets, TLC

VARIABLES
    colors,            \* line 4: the palette list, mutated in place (lines 63, 111)
    color_names,       \* lines 7-10: the catalog rows, each a list of fields
    row,               \* position of the for loop of line 16 in color_names
    all_colors,        \* line 12: the candidate list
    all_colors_names,  \* line 13
    all_colors_rgbs,   \* line 14
    s,                 \* line 55
    new_colors_names,  \* line 61: the match results, in matching order
    pc,                \* the statement the script is at
    raised             \* line of the uncaught exception, 0 while none

vars == <<colors, color_names, row, all_colors, all_colors_names,
          all_colors_rgbs, s, new_colors_names, pc, raised>>

----------------------------------------------------------------------------
(* Bounds of the model *)

\* most lines in colors.txt
MaxRows == 2
\* most lines in colors.txt when every line is one the Normalizer accepts
MaxAcceptedRows == 3
\* most palette entries after the first sixteen
MaxExtra == 2

\* line 63: del colors[:16]
PrefixLen == 16

----------------------------------------------------------------------------
(* Python str operations *)

Digits == <<"0", "1", "2", "3", "4", "5", "6", "7", "8", "9">>

Uppers == <<"A", "B", "C", "D", "E", "F", "G", "H", "I", "J", "K", "L", "M",
            "N", "O", "P", "Q", "R", "S", "T", "U", "V", "W", "X", "Y", "Z">>

Lowers == <<"a", "b", "c", "d", "e", "f", "g", "h", "i", "j", "k", "l", "m",
            "n", "o", "p", "q", "r", "s", "t", "u", "v", "w", "x", "y", "z">>

\* the characters str.split() with no argument splits on
Whitespace == {" ", "\t", "\n", "\r", "\f"}

\* str.isdigit of one character
IsDigit(c) == \E d \in 1..Len(Digits) : Digits[d] = c

\* str.lower of one character
LowerChar(c) ==
    IF \E k \in 1..Len(Uppers) : Uppers[k] = c
    THEN Lowers[CHOOSE k \in 1..Len(Uppers) : Uppers[k] = c]
    ELSE c

\* str.upper of one character
UpperChar(c) ==
    IF \E k \in 1..Len(Lowers) : Lowers[k] = c
    THEN Uppers[CHOOSE k \in 1..Len(Lowers) : Lowers[k] = c]
    ELSE c

\* str.lower
Lower(str) == [k \in 1..Len(str) |-> LowerChar(str[k])]

\* sub in str, for a one-character sub
Contains(str, c) == \E k \in 1..Len(str) : str[k] = c

\* str.startswith(prefix)
StartsWith(str, prefix) ==
    /\ Len(str) >= Len(prefix)
    /\ SubSeq(str, 1, Len(prefix)) = prefix

\* str.split(sep) for a one-character sep: every occurrence splits, empty
\* fields are kept, and the empty string gives one empty field.
RECURSIVE SplitOn(_, _)
SplitOn(str, sep) ==
    IF ~Contains(str, sep)
    THEN <<str>>
    ELSE LET k == CHOOSE i \in 1..Len(str) :
                      /\ str[i] = sep
                      /\ \A h \in 1..(i - 1) : str[h] # sep
         IN  <<SubSeq(str, 1, k - 1)>> \o SplitOn(SubSeq(str, k + 1, Len(str)), sep)

\* str.split() with no argument: runs of whitespace separate the fields and
\* no empty field is produced.
RECURSIVE SplitWhitespace(_)
SplitWhitespace(str) ==
    IF str = <<>> THEN <<>>
    ELSE IF str[1] \in Whitespace THEN SplitWhitespace(Tail(str))
    ELSE LET stop == IF \E i \in 1..Len(str) : str[i] \in Whitespace
                     THEN CHOOSE i \in 1..Len(str) :
                              /\ str[i] \in Whitespace
                              /\ \A h \in 1..(i - 1) : str[h] \notin Whitespace
                     ELSE Len(str) + 1
         IN  <<SubSeq(str, 1, stop - 1)>>
                 \o SplitWhitespace(SubSeq(str, stop, Len(str)))

\* str.replace(old, new): the occurrences of old are replaced from the left,
\* without overlap.
RECURSIVE Replace(_, _, _)
Replace(str, old, new) ==
    IF Len(str) < Len(old) THEN str
    ELSE IF SubSeq(str, 1, Len(old)) = old
         THEN new \o Replace(SubSeq(str, Len(old) + 1, Len(str)), old, new)
         ELSE <<str[1]>> \o Replace(Tail(str), old, new)

\* whether int(tok) returns, for a tok of ASCII characters other than "_":
\* an optional sign and then decimal digits
IsIntLiteral(tok) ==
    LET body == IF tok # <<>> /\ tok[1] \in {"+", "-"} THEN Tail(tok) ELSE tok
    IN  /\ body # <<>>
        /\ \A k \in 1..Len(body) : IsDigit(body[k])

DigitValue(c) == (CHOOSE d \in 1..Len(Digits) : Digits[d] = c) - 1

RECURSIVE DecimalValue(_)
DecimalValue(body) ==
    IF body = <<>> THEN 0
    ELSE 10 * DecimalValue(SubSeq(body, 1, Len(body) - 1))
             + DigitValue(body[Len(body)])

\* int(tok), where IsIntLiteral(tok)
ParseInt(tok) ==
    IF tok[1] = "-" THEN 0 - DecimalValue(Tail(tok))
    ELSE IF tok[1] = "+" THEN DecimalValue(Tail(tok))
    ELSE DecimalValue(tok)

----------------------------------------------------------------------------
(* The inputs *)

\* Lines of colors.txt, "R G B<TAB>index<TAB>name".  open() reads in text mode,
\* which turns every "\r\n" and "\r" of the file into "\n": no line holds "\r".
CatalogLines == {
    <<"0", " ", "0", " ", "0", "\t", "0", "\t", "G", "r", "e", "y">>,
    <<"4", " ", "0", " ", "0", "\t", "0", "\t", "G", "r", "a", "y">>,
    <<"0", " ", "0", " ", "0", "\t", "1", "\t", "a", "b", "c">>,
    <<"1", " ", "0", " ", "0", "\t", "1", "\t", "A", "b", "c">>,
    <<"1", " ", "0", " ", "0", "\t", "2", "\t", "b", "2">>,
    <<"4", " ", "0", " ", "0", "\t", "3", "\t">>,
    <<"1", " ", "0", " ", "0", "\t", "4", "\t", "a", " ", "b">>,
    <<"1", " ", "0", " ", "0", "\t", "4", "\t", "a", "\f", "b">>,
    <<"x", " ", "0", " ", "0", "\t", "5", "\t", "X", "1", "1", "a">>,
    <<"x", " ", "0", " ", "0", "\t", "5", "\t", "q">>,
    <<"0", " ", "0", "\t", "5", "\t", "W", "e", "b", "q">>,
    <<"1", " ", "0", " ", "0", "\t", "6", "\t", "R", "e", "d">>,
    <<>> }

\* The lines among them that the Normalizer accepts, each with a name that
\* is not empty.
AcceptedLines == {
    <<"0", " ", "0", " ", "0", "\t", "0", "\t", "G", "r", "e", "y">>,
    <<"4", " ", "0", " ", "0", "\t", "0", "\t", "G", "r", "a", "y">>,
    <<"0", " ", "0", " ", "0", "\t", "1", "\t", "a", "b", "c">>,
    <<"1", " ", "0", " ", "0", "\t", "1", "\t", "A", "b", "c">>,
    <<"1", " ", "0", " ", "0", "\t", "2", "\t", "b", "2">>,
    <<"1", " ", "0", " ", "0", "\t", "4", "\t", "a", "\f", "b">> }

\* the text of a file holding the given lines
RECURSIVE JoinLines(_)
JoinLines(ls) ==
    IF Len(ls) = 1 THEN ls[1]
    ELSE ls[1] \o <<"\n">> \o JoinLines(Tail(ls))

\* lines 7-10
ReadCatalog(text) ==
    LET ls == SplitOn(text, "\n")
    IN  [k \in 1..Len(ls) |-> SplitOn(ls[k], "\t")]

\* the "rgb" objects of colors.json past the reserved prefix
PaletteRgbs == { [r |-> 0, g |-> 0, b |-> 0], [r |-> 2, g |-> 0, b |-> 0] }

\* the "rgb" object of the reserved entries
ReservedRgb == [r |-> 0, g |-> 0, b |-> 0]

\* colors.json: a list of n entries with colorId 0 .. n-1 in file order
Palettes ==
    UNION { { [k \in 1..(PrefixLen + n) |->
                 [colorId |-> k - 1,
                  rgb |-> IF k <= PrefixLen THEN ReservedRgb ELSE extra[k - PrefixLen]]]
              : extra \in [1..n -> PaletteRgbs] }
            : n \in 0..MaxExtra }
    \cup { [k \in 1..(PrefixLen - 1) |-> [colorId |-> k - 1, rgb |-> ReservedRgb]] }

\* the state when line 12 is reached, for a colors.txt of 1 to n of the lines
InitFrom(lines, n) ==
    /\ colors \in Palettes
    /\ \E m \in 1..n : \E ls \in [1..m -> lines] :
           color_names = ReadCatalog(JoinLines(ls))
    /\ row = 1
    /\ all_colors = <<>>
    /\ all_colors_names = {}
    /\ all_colors_rgbs = {}
    /\ s = {}
    /\ new_colors_names = <<>>
    /\ pc = "normalize"
    /\ raised = 0

Init == InitFrom(CatalogLines, MaxRows)

AcceptedInit == InitFrom(AcceptedLines, MaxAcceptedRows)

----------------------------------------------------------------------------
(* Name Normalizer, lines 12-57 *)

\* line 27 left out: the name is kept as the catalog spells it
RawName(name) == name

\* line 27
NormalizedName(name) == Replace(name, <<"G", "r", "e", "y">>, <<"G", "r", "a", "y">>)

\* lines 32-39
BasicColorWords == {
    <<"b", "l", "a", "c", "k">>,
    <<"r", "e", "d">>,
    <<"g", "r", "e", "e", "n">>,
    <<"y", "e", "l", "l", "o", "w">>,
    <<"b", "l", "u", "e">>,
    <<"m", "a", "g", "e", "n", "t", "a">>,
    <<"c", "y", "a", "n">>,
    <<"w", "h", "i", "t", "e">> }

\* lines 19-41: whether the row is skipped by one of the continue statements.
\* toks is the (r, g, b) of line 17, a tuple of strings.
Skipped(toks, name, names, rgbs) ==
    \/ toks \in rgbs
    \/ Contains(name, " ")
    \/ StartsWith(name, <<"X", "1", "1">>)
    \/ StartsWith(name, <<"W", "e", "b">>)
    \/ NormalizedName(name) \in names
    \/ Lower(NormalizedName(name)) \in BasicColorWords

\* lines 43-46
HasNum(name) == \E k \in 1..Len(name) : IsDigit(name[k])

\* lines 16-53: one iteration of the for loop over color_names
NormalizeRow ==
    /\ pc = "normalize"
    /\ row <= Len(color_names)
    /\ LET fields == color_names[row]
           toks == SplitWhitespace(fields[1])
           name == NormalizedName(fields[3])
       IN  IF Len(fields) # 3
           THEN \* line 16: the row does not unpack into rgb, _, name
                /\ pc' = "error"
                /\ raised' = 16
                /\ UNCHANGED <<row, all_colors, all_colors_names>>
           ELSE IF Len(toks) # 3
           THEN \* line 17: rgb.split() does not unpack into r, g, b
                /\ pc' = "error"
                /\ raised' = 17
                /\ UNCHANGED <<row, all_colors, all_colors_names>>
           ELSE IF Skipped(toks, fields[3], all_colors_names, all_colors_rgbs)
           THEN /\ row' = row + 1
                /\ UNCHANGED <<pc, raised, all_colors, all_colors_names>>
           ELSE IF \E k \in 1..3 : ~IsIntLiteral(toks[k])
           THEN \* line 50: int() raises after line 48 has added the name
                /\ pc' = "error"
                /\ raised' = 50
                /\ all_colors_names' = all_colors_names \cup {name}
                /\ UNCHANGED <<row, all_colors>>
           ELSE /\ all_colors_names' = all_colors_names \cup {name}
                /\ all_colors' = Append(all_colors,
                       [rgb |-> <<ParseInt(toks[1]), ParseInt(toks[2]), ParseInt(toks[3])>>,
                        name |-> name,
                        has_num |-> HasNum(name)])
                /\ row' = row + 1
                /\ UNCHANGED <<pc, raised>>
    /\ UNCHANGED <<colors, color_names, all_colors_rgbs, s, new_colors_names>>

\* list.sort(key): the elements in ascending order of key, elements of equal
\* key in their order in the list.  keys[k] is the key of list[k].
StableSort(list, keys) ==
    LET Rank(k) == Cardinality({ h \in 1..Len(list) :
                        \/ keys[h] < keys[k]
                        \/ keys[h] = keys[k] /\ h < k }) + 1
    IN  [p \in 1..Len(list) |-> list[CHOOSE k \in 1..Len(list) : Rank(k) = p]]

\* line 57: the key a[2] is has_num, and False sorts before True
SortCandidates ==
    /\ pc = "normalize"
    /\ row > Len(color_names)
    /\ all_colors' = StableSort(all_colors,
           [k \in 1..Len(all_colors) |-> IF all_colors[k].has_num THEN 1 ELSE 0])
    /\ pc' = "del_prefix"
    /\ UNCHANGED <<colors, color_names, row, all_colors_names, all_colors_rgbs,
                   s, new_colors_names, raised>>

----------------------------------------------------------------------------
(* Greedy Matcher, lines 61-113 *)

\* del list[:n]
DelSlice(list, n) == SubSeq(list, n + 1, Len(list))

\* del list[k], k counted from 1
DelAt(list, k) == SubSeq(list, 1, k - 1) \o SubSeq(list, k + 1, Len(list))

\* line 63
DeletePrefix ==
    /\ pc = "del_prefix"
    /\ colors' = DelSlice(colors, PrefixLen)
    /\ pc' = "match"
    /\ UNCHANGED <<color_names, row, all_colors, all_colors_names, all_colors_rgbs,
                   s, new_colors_names, raised>>

\* line 75
Dist(rgb, color) ==
    (rgb[1] - color.r) * (rgb[1] - color.r)
        + (rgb[2] - color.g) * (rgb[2] - color.g)
        + (rgb[3] - color.b) * (rgb[3] - color.b)

\* line 77 with the comparison turned around: best_dist < dist
Less(best_dist, dist) == best_dist = <<>> \/ best_dist[1] < dist

\* line 77 with best_dist >= dist: a later pair of equal distance wins
GreaterOrEqual(best_dist, dist) == best_dist = <<>> \/ best_dist[1] >= dist

\* line 77: best_dist > dist.  best_dist is <<>> for float("inf") and <<d>>
\* for the integer d.
Greater(best_dist, dist) == best_dist = <<>> \/ best_dist[1] > dist

\* lines 70-79, resumed at palette position i and candidate position j
\* (counted from 1) with the best pair found so far
RECURSIVE ScanFrom(_, _, _, _, _)
ScanFrom(cols, cands, i, j, best) ==
    IF i > Len(cols) THEN best
    ELSE IF j > Len(cands) THEN ScanFrom(cols, cands, i + 1, 1, best)
    ELSE LET dist == Dist(cands[j].rgb, cols[i].rgb)
         IN  ScanFrom(cols, cands, i, j + 1,
                 IF Greater(best.best_dist, dist)
                 THEN [best_dist |-> <<dist>>, best_index |-> <<i, j>>]
                 ELSE best)

\* lines 66-79: best_index is <<>> for None
Scan(cols, cands) ==
    ScanFrom(cols, cands, 1, 1, [best_dist |-> <<>>, best_index |-> <<>>])

\* line 92, for a name that is not empty
Capitalized(name) == <<UpperChar(name[1])>> \o Tail(name)

\* lines 66-111: one iteration of the while loop
MatchIteration ==
    /\ pc = "match"
    /\ LET best == Scan(colors, all_colors)
       IN  IF best.best_index = <<>>
           THEN \* lines 81-82
                /\ pc' = "final_sort"
                /\ UNCHANGED <<colors, all_colors, s, new_colors_names, raised>>
           ELSE LET i == best.best_index[1]
                    j == best.best_index[2]
                    better_name == all_colors[j].name
                IN  IF better_name = <<>>
                    THEN \* line 92: better_name[0] of the empty string
                         /\ pc' = "error"
                         /\ raised' = 92
                         /\ UNCHANGED <<colors, all_colors, s, new_colors_names>>
                    ELSE /\ s' = s \cup {Capitalized(better_name)}
                         /\ new_colors_names' = Append(new_colors_names,
                                [best_dist |-> best.best_dist[1],
                                 color |-> colors[i],
                                 better_name |-> Capitalized(better_name)])
                         /\ all_colors' = DelAt(all_colors, j)
                         /\ colors' = DelAt(colors, i)
                         /\ UNCHANGED <<pc, raised>>
    /\ UNCHANGED <<color_names, row, all_colors_names, all_colors_rgbs>>

\* line 113
FinalSort ==
    /\ pc = "final_sort"
    /\ new_colors_names' = StableSort(new_colors_names,
           [k \in 1..Len(new_colors_names) |-> new_colors_names[k].color.colorId])
    /\ pc' = "done"
    /\ UNCHANGED <<colors, color_names, row, all_colors, all_colors_names,
                   all_colors_rgbs, s, raised>>

Next ==
    \/ NormalizeRow
    \/ SortCandidates
    \/ DeletePrefix
    \/ MatchIteration
    \/ FinalSort

Spec == Init /\ [][Next]_vars

\* the runs on a catalog whose every line is accepted
AcceptedSpec == AcceptedInit /\ [][Next]_vars

----------------------------------------------------------------------------
(* The properties *)

\* "Grey" respelled "Gray", written out apart from the Normalizer
GraySpelling(name) == Replace(name, <<"G", "r", "e", "y">>, <<"G", "r", "a", "y">>)

\* an rgb_string of exactly three whitespace-separated integers
ValidRgbString(str) ==
    LET toks == SplitWhitespace(str)
    IN  /\ Len(toks) = 3
        /\ \A k \in 1..3 : IsIntLiteral(toks[k])

\* the triple a valid rgb_string stands for
RgbOf(str) ==
    LET toks == SplitWhitespace(str)
    IN  <<ParseInt(toks[1]), ParseInt(toks[2]), ParseInt(toks[3])>>

HasWhitespace(name) == \E k \in 1..Len(name) : name[k] \in Whitespace

Min(a, b) == IF a <= b THEN a ELSE b

\* C1: no two Match Results of a run carry the same assigned name.
AssignedNamesUnique ==
    \A a, b \in 1..Len(new_colors_names) :
        a # b => new_colors_names[a].better_name # new_colors_names[b].better_name

\* C2: no two candidates share the same (r, g, b) triple.
CandidateRgbsUnique ==
    \A a, b \in 1..Len(all_colors) :
        a # b => all_colors[a].rgb # all_colors[b].rgb

\* C3: no two candidates share the same normalized name ("Grey" respelled
\* "Gray", compared case-sensitively), and the candidate of a name comes from
\* the first catalog row that normalizes to that name.
CandidateNamesUnique ==
    /\ \A a, b \in 1..Len(all_colors) :
           a # b => GraySpelling(all_colors[a].name) # GraySpelling(all_colors[b].name)
    /\ \A a \in 1..Len(all_colors) :
           LET same == { k \in 1..Len(color_names) :
                           /\ Len(color_names[k]) = 3
                           /\ GraySpelling(color_names[k][3])
                                  = GraySpelling(all_colors[a].name) }
               first == CHOOSE k \in same : \A h \in same : k <= h
           IN  /\ same # {}
               /\ all_colors[a].name = GraySpelling(color_names[first][3])
               /\ ValidRgbString(color_names[first][1])
               /\ all_colors[a].rgb = RgbOf(color_names[first][1])

\* C3 witness: two rows spelled differently have been processed, both
\* normalize to one name, and a candidate of that name is in the list.
TwoSpellingsOneCandidate ==
    \E k, h \in 1..Len(color_names) :
        /\ k < h /\ h < row
        /\ color_names[k][3] # color_names[h][3]
        /\ GraySpelling(color_names[k][3]) = GraySpelling(color_names[h][3])
        /\ \E a \in 1..Len(all_colors) :
               all_colors[a].name = GraySpelling(color_names[h][3])

\* C4: in matching order, before the final sort, the recorded distances are
\* non-decreasing.
DistancesNonDecreasing ==
    pc # "done" =>
        \A k \in 1..(Len(new_colors_names) - 1) :
            new_colors_names[k].best_dist <= new_colors_names[k + 1].best_dist

\* C4 witness: the loop has ended after two matches or more, the second
\* farther than the first.
SecondMatchFarther ==
    /\ pc = "final_sort"
    /\ Len(new_colors_names) >= 2
    /\ new_colors_names[1].best_dist < new_colors_names[2].best_dist

\* C5: an iteration of the Greedy Matcher that finds both lists non-empty
\* commits a match and shrinks both lists by one; an iteration that finds one
\* of them empty ends the loop with no error; the loop ends after min(P, C)
\* matches, for P palette entries and C candidates, matched or remaining.
MatcherExhaustsShorterList ==
    [][pc = "match" =>
          /\ IF colors = <<>> \/ all_colors = <<>>
             THEN /\ pc' = "final_sort"
                  /\ UNCHANGED <<colors, all_colors, new_colors_names>>
             ELSE /\ pc' = "match"
                  /\ Len(colors') = Len(colors) - 1
                  /\ Len(all_colors') = Len(all_colors) - 1
                  /\ Len(new_colors_names') = Len(new_colors_names) + 1
          /\ pc' # "match" =>
                 Len(new_colors_names') =
                     Min(Len(colors') + Len(new_colors_names'),
                         Len(all_colors') + Len(new_colors_names'))
      ]_vars

\* C6: every row the Normalizer has gone past without aborting has an
\* rgb_string of exactly three whitespace-separated integers, whether its
\* name passes the filters or not.
MalformedRgbAborts ==
    \A k \in 1..Len(color_names) :
        (k < row /\ Len(color_names[k]) = 3) => ValidRgbString(color_names[k][1])

\* C7: a run on a catalog whose every row has three fields and an rgb_string
\* of three integers raises no error.
WellFormedCatalogNeverRaises ==
    (\A k \in 1..Len(color_names) :
         /\ Len(color_names[k]) = 3
         /\ ValidRgbString(color_names[k][1]))
    => raised = 0

\* C8: no candidate name and no assigned name holds a whitespace character.
NamesAreSingleTokens ==
    /\ \A a \in 1..Len(all_colors) : ~HasWhitespace(all_colors[a].name)
    /\ \A a \in 1..Len(new_colors_names) :
           ~HasWhitespace(new_colors_names[a].better_name)

\* C9: the palette entries at index 0 to 15 are in no Match Result; line 63
\* leaves the entry at index 16 first in the working list, or the list empty
\* when the palette has 16 entries or fewer; an iteration that finds the
\* entry at index 16 alone in the palette list and a candidate in the
\* candidate list matches it; an empty palette list ends the loop with no
\* result and no error.
PrefixBoundary ==
    [][/\ \A k \in 1..Len(new_colors_names') :
              new_colors_names'[k].color.colorId >= PrefixLen
       /\ pc = "del_prefix" =>
              IF Len(colors) > PrefixLen
              THEN colors'[1] = colors[PrefixLen + 1]
              ELSE colors' = <<>>
       /\ (/\ pc = "match"
           /\ Len(colors) = 1
           /\ colors[1].colorId = PrefixLen
           /\ all_colors # <<>>)
          => \E k \in 1..Len(new_colors_names') :
                 new_colors_names'[k].color = colors[1]
       /\ (pc = "match" /\ colors = <<>> /\ new_colors_names = <<>>)
          => (pc' = "final_sort" /\ new_colors_names' = <<>> /\ raised' = 0)
      ]_vars

\* C10: the pair an iteration commits attains the least squared distance
\* over all pairs of a remaining palette entry and a remaining candidate, it
\* is the first such pair in scan order (lowest palette position, then lowest
\* candidate position in the candidate list, where the names without a digit
\* come first), and the recorded distance is that least distance.
CommitsFirstClosestPair ==
    [][(pc = "match" /\ Len(new_colors_names') > Len(new_colors_names)) =>
          LET pairs == (1..Len(colors)) \X (1..Len(all_colors))
              D(p) == Dist(all_colors[p[2]].rgb, colors[p[1]].rgb)
              closest == { p \in pairs : \A q \in pairs : D(p) <= D(q) }
              first == CHOOSE p \in closest : \A q \in closest :
                           \/ p[1] < q[1]
                           \/ p[1] = q[1] /\ p[2] <= q[2]
              result == new_colors_names'[Len(new_colors_names')]
          IN  /\ \A a, b \in 1..Len(all_colors) :
                     (a < b /\ all_colors[a].has_num) => all_colors[b].has_num
              /\ result.best_dist = D(first)
              /\ result.color = colors[first[1]]
              /\ result.better_name = Capitalized(all_colors[first[2]].name)
              /\ colors' = DelAt(colors, first[1])
              /\ all_colors' = DelAt(all_colors, first[2])
      ]_vars

\* C10 witness: a match was committed while a candidate that is still in the
\* list was at the same distance from the matched palette entry, of two
\* palette entries or more.
TieWasBroken ==
    /\ pc = "match"
    /\ colors # <<>>
    /\ \E k \in 1..Len(new_colors_names) : \E a \in 1..Len(all_colors) :
           Dist(all_colors[a].rgb, new_colors_names[k].color.rgb)
               = new_colors_names[k].best_dist

====
